---- MODULE Spec2Model ----
(***************************************************************************)
(* Token sources of go-githubauth: the application (JWT) source, the       *)
(* installation source, the personal-access-token source, and the          *)
(* oauth2.ReuseTokenSource wrapper the constructors put around them.       *)
(*                                                                         *)
(* Time is counted in clock units, Second of them to the second, so that    *)
(* the wall clock can stand between two whole seconds.  time.Time{} (the    *)
(* zero time) is 0; the wall clock starts at StartTime > 0 and only moves   *)
(* forward.                                                                *)
(*                                                                         *)
(* The reuse wrapper is golang.org/x/oauth2 (a dependency named in go.mod, *)
(* its code is not part of the repository sources): Token() takes the      *)
(* wrapper's mutex, returns the held token when it is Valid(), otherwise   *)
(* calls the wrapped source and stores a successful result.                *)
(***************************************************************************)
EXTENDS Integers, Sequences, FiniteSets, TLC

\* ---------------------------------------------------------------- bounds
NumCallers == 2         \* goroutines calling Token() on the source under test
MaxGen == 3             \* cap on calls of the underlying Token() (Generate)
StartTime == 200        \* wall clock at construction, in clock units
Quantum == 5            \* the clock advances in steps of Quantum units
Horizon == 4            \* the clock advances at most Horizon times
ShortLife == 5          \* a server-granted lifetime inside the safety margin
LongLife == 30          \* a server-granted lifetime beyond the safety margin
ShortExp == 30          \* a JWT lifetime below the clock-drift allowance
MidExp == 145           \* a JWT lifetime just above the clock-drift allowance

Callers == 1..NumCallers
MaxTime == StartTime + Horizon * Quantum

\* ------------------------------------------------------ program constants
Second == 2                                \* time.Second, in clock units
DefaultApplicationTokenExpiration == 600 * Second   \* 10 * time.Minute
ClockDrift_Half == 30 * Second             \* a variant: 30 s only
ClockDrift == 60 * Second                  \* iat is set 60 s in the past
defaultExpiryDelta == 10 * Second          \* oauth2: tokens expire 10 s early
StatusOK == 200
StatusCreated == 201
StatusInternalServerError == 500
StatusAccepted == 202
StatusBadRequest == 400
StatusNotFound == 404
bearerTokenType == "Bearer"

\* ------------------------------------------------------------ data model
\* A string value the model tells apart by text s and serial n; "" is Str("",0).
Str(s, n) == [s |-> s, n |-> n]
EmptyString == Str("", 0)

\* *oauth2.Token; NilToken stands for the nil pointer.
Token(accessToken, tokenType, expiry) ==
    [AccessToken |-> accessToken, TokenType |-> tokenType, Expiry |-> expiry]
NilToken == Token(EmptyString, "", 0)

\* An error value: its message, and for an API status error the status code
\* and the response body text formatted into the message.  NoError is nil.
Error(msg, status, body) == [msg |-> msg, status |-> status, body |-> body]
NoError == Error("", 0, "")
errors_New(msg) == Error(msg, 0, "")

\* (value, error) results.
Ok(t) == [tok |-> t, err |-> NoError]
Fail(e) == [tok |-> NilToken, err |-> e]

\* ------------------------------------------------- oauth2.Token validity
\* Token.expired: a zero Expiry never expires; otherwise the token counts as
\* expired once Expiry - defaultExpiryDelta is before the current time.
expired(t, clock) ==
    IF t.Expiry = 0 THEN FALSE
    ELSE t.Expiry - defaultExpiryDelta < clock

\* Token.Valid: non-nil, with a non-empty AccessToken, and not expired.
Valid(t, clock) ==
    /\ t # NilToken
    /\ t.AccessToken # EmptyString
    /\ ~expired(t, clock)

\* ------------------------------------------------- application (JWT) source
\* A variant that stores the given duration as it is.
WithApplicationTokenExpiration_NoClamp(exp) == exp

\* WithApplicationTokenExpiration: out-of-range values fall back to the default.
WithApplicationTokenExpiration(exp) ==
    IF exp > DefaultApplicationTokenExpiration \/ exp <= 0
    THEN DefaultApplicationTokenExpiration
    ELSE exp

RECURSIVE ApplyExpirationOpts(_, _)
ApplyExpirationOpts(expiration, opts) ==
    IF opts = <<>> THEN expiration
    ELSE ApplyExpirationOpts(WithApplicationTokenExpiration(Head(opts)), Tail(opts))

\* The nil oauth2.TokenSource a failed constructor returns.
NilSource == [kind |-> "none", reuse |-> FALSE]

\* strconv.FormatInt(v, 10): the decimal digits of v, with a sign if negative.
Digit(d) == <<"0", "1", "2", "3", "4", "5", "6", "7", "8", "9">>[d + 1]

RECURSIVE FormatUint(_)
FormatUint(v) ==
    IF v < 10 THEN Digit(v) ELSE FormatUint(v \div 10) \o Digit(v % 10)

\* A variant that renders the last digit only.
FormatInt_LastDigit(v) == Digit(v % 10)

FormatInt(v) == IF v < 0 THEN "-" \o FormatUint(-v) ELSE FormatUint(v)

\* jwt.ParseRSAPrivateKeyFromPEM on the key bytes, told apart by what they
\* hold: nil, no bytes, text that is not PEM, a PEM block with an EC key, a
\* PEM block with an RSA private key.
PrivateKeys == {"nil", "empty", "text", "ec.pem", "rsa.pem"}

ParseRSAPrivateKeyFromPEM(privateKey) ==
    CASE privateKey = "rsa.pem" -> NoError
      [] privateKey = "ec.pem" -> errors_New("key is not a valid RSA private key")
      [] OTHER -> errors_New("invalid key: Key must be a PEM encoded PKCS1 or PKCS8 key")

\* A variant that hands back the bare source, as the constructor did before
\* the reuse wrapper was introduced.
NewApplicationTokenSource_Bare(id, privateKey, opts) ==
    LET isZeroValue == IF id.type = "int64" THEN id.n = 0 ELSE id.s = ""
        issuer == IF id.type = "int64" THEN FormatInt(id.n) ELSE id.s
        err == ParseRSAPrivateKeyFromPEM(privateKey)
    IN  IF id.type \notin {"int64", "string"}
        THEN [src |-> NilSource, err |-> errors_New("unsupported identifier type")]
        ELSE IF isZeroValue
        THEN [src |-> NilSource,
              err |-> errors_New("application identifier is required")]
        ELSE IF err # NoError
        THEN [src |-> NilSource, err |-> err]
        ELSE [src |-> [kind |-> "app", reuse |-> FALSE, issuer |-> issuer,
                       expiration |-> ApplyExpirationOpts(
                           DefaultApplicationTokenExpiration, opts)],
              err |-> NoError]

\* NewApplicationTokenSource[T Identifier](id, privateKey, opts...): id is
\* Identifier(type, n, s), type being the dynamic type of the identifier
\* ("int64", "string", or a defined type over one of them), n its value if
\* it is a number and s its value if it is a string.
NewApplicationTokenSource(id, privateKey, opts) ==
    LET isZeroValue == IF id.type = "int64" THEN id.n = 0 ELSE id.s = ""
        issuer == IF id.type = "int64" THEN FormatInt(id.n) ELSE id.s
        err == ParseRSAPrivateKeyFromPEM(privateKey)
    IN  IF id.type \notin {"int64", "string"}
        THEN [src |-> NilSource, err |-> errors_New("unsupported identifier type")]
        ELSE IF isZeroValue
        THEN [src |-> NilSource,
              err |-> errors_New("application identifier is required")]
        ELSE IF err # NoError
        THEN [src |-> NilSource, err |-> err]
        ELSE [src |-> [kind |-> "app", reuse |-> TRUE, issuer |-> issuer,
                       expiration |-> ApplyExpirationOpts(
                           DefaultApplicationTokenExpiration, opts)],
              err |-> NoError]

\* jwt.NewNumericDate: the time truncated to jwt.TimePrecision, one second.
NewNumericDate(t) == t - (t % Second)

\* The jwt.RegisteredClaims applicationTokenSource.Token signs at time clock.
RegisteredClaims(t, clock) ==
    LET issuedAt == clock - ClockDrift
        expiresAt == issuedAt + t.expiration
    IN  [IssuedAt |-> NewNumericDate(issuedAt),
         ExpiresAt |-> NewNumericDate(expiresAt),
         Issuer |-> t.issuer]
NoClaims == [IssuedAt |-> 0, ExpiresAt |-> 0, Issuer |-> ""]

\* A variant that counts the expiry of the credential from the wall clock
\* instead of from the issued-at time.
applicationTokenSource_Token_FromNow(t, clock, serial) ==
    Ok(Token(Str("jwt", serial), bearerTokenType, clock + t.expiration))

\* applicationTokenSource.Token at wall-clock time clock; serial names the
\* signed string this call produces.
applicationTokenSource_Token(t, clock, serial) ==
    LET issuedAt == clock - ClockDrift
        expiresAt == issuedAt + t.expiration
    IN  Ok(Token(Str("jwt", serial), bearerTokenType, expiresAt))

\* ------------------------------------------------------------- API client
\* An HTTP exchange: transport failure, or a status code with a body.  Bodies:
\* "full" (token and expires_at), "noexp" (token only), "empty" ({}), and
\* "garbage" (not JSON).
Response(failed, status, body, expiresAt) ==
    [failed |-> failed, status |-> status, body |-> body, expiresAt |-> expiresAt]

Bodies == {"full", "noexp", "empty", "garbage"}

\* The exchanges the server side can produce at time clock: no response at
\* all, 201 Created with any body, or 500 with a JSON or a non-JSON error text.
Responses(clock) ==
    {Response(TRUE, 0, "", 0)}
    \cup {Response(FALSE, StatusCreated, "full", clock + d) :
            d \in {ShortLife, LongLife}}
    \cup {Response(FALSE, StatusCreated, b, 0) : b \in Bodies \ {"full"}}
    \cup {Response(FALSE, StatusInternalServerError, b, 0) :
            b \in {"empty", "garbage"}}

\* A variant without the status check: any response body is decoded.
createInstallationToken_NoStatusCheck(r, serial) ==
    IF r.failed
    THEN [token |-> EmptyString, expiresAt |-> 0,
          err |-> errors_New("failed to execute request")]
    ELSE IF r.body = "garbage"
    THEN [token |-> EmptyString, expiresAt |-> 0,
          err |-> errors_New("failed to decode response")]
    ELSE [token |-> IF r.body = "empty" THEN EmptyString ELSE Str("ghs", serial),
          expiresAt |-> IF r.body = "full" THEN r.expiresAt ELSE 0,
          err |-> NoError]

\* A variant that hands back the token struct as far as the decoder filled
\* it, together with the decode error.
createInstallationToken_PartialDecode(r, serial) ==
    IF r.failed
    THEN [token |-> EmptyString, expiresAt |-> 0,
          err |-> errors_New("failed to execute request")]
    ELSE IF r.status # StatusOK /\ r.status # StatusCreated
    THEN [token |-> EmptyString, expiresAt |-> 0,
          err |-> Error("GitHub API returned status", r.status, r.body)]
    ELSE [token |-> IF r.body = "empty" THEN EmptyString ELSE Str("ghs", serial),
          expiresAt |-> IF r.body = "full" THEN r.expiresAt ELSE 0,
          err |-> IF r.body = "garbage"
                  THEN errors_New("failed to decode response") ELSE NoError]

\* A variant that lets every 2xx status through and reports any other
\* status without the response body.
createInstallationToken_Any2xx(r, serial) ==
    IF r.failed
    THEN [token |-> EmptyString, expiresAt |-> 0,
          err |-> errors_New("failed to execute request")]
    ELSE IF r.status < 200 \/ r.status > 299
    THEN [token |-> EmptyString, expiresAt |-> 0,
          err |-> Error("GitHub API returned status", r.status, "")]
    ELSE IF r.body = "garbage"
    THEN [token |-> EmptyString, expiresAt |-> 0,
          err |-> errors_New("failed to decode response")]
    ELSE [token |-> IF r.body = "empty" THEN EmptyString ELSE Str("ghs", serial),
          expiresAt |-> IF r.body = "full" THEN r.expiresAt ELSE 0,
          err |-> NoError]

\* githubClient.createInstallationToken, from the response on: the status
\* check, then the JSON decoding of token and expires_at.
createInstallationToken(r, serial) ==
    IF r.failed
    THEN [token |-> EmptyString, expiresAt |-> 0,
          err |-> errors_New("failed to execute request")]
    ELSE IF r.status # StatusOK /\ r.status # StatusCreated
    THEN [token |-> EmptyString, expiresAt |-> 0,
          err |-> Error("GitHub API returned status", r.status, r.body)]
    ELSE IF r.body = "garbage"
    THEN [token |-> EmptyString, expiresAt |-> 0,
          err |-> errors_New("failed to decode response")]
    ELSE [token |-> IF r.body = "empty" THEN EmptyString ELSE Str("ghs", serial),
          expiresAt |-> IF r.body = "full" THEN r.expiresAt ELSE 0,
          err |-> NoError]

\* ------------------------------------------------------------------- URLs
\* A URL text is a sequence of lexemes: "https", ":", "//", a host name, "/",
\* a path segment, a blank, a line feed.  *url.URL keeps scheme, host and the
\* lexemes of the path.
URL(scheme, host, path) == [Scheme |-> scheme, Host |-> host, Path |-> path]
NoURL == URL("", "", <<>>)

RECURSIVE Join(_)
Join(lexemes) ==
    IF lexemes = <<>> THEN "" ELSE Head(lexemes) \o Join(Tail(lexemes))

\* Position of the first "/" of a lexeme sequence, Len + 1 if there is none,
\* and of the last one, 0 if there is none.
FirstSlash(lexemes) ==
    IF \E i \in 1..Len(lexemes) : lexemes[i] = "/"
    THEN CHOOSE i \in 1..Len(lexemes) :
            /\ lexemes[i] = "/"
            /\ \A j \in 1..(i - 1) : lexemes[j] # "/"
    ELSE Len(lexemes) + 1

LastSlash(lexemes) ==
    IF \E i \in 1..Len(lexemes) : lexemes[i] = "/"
    THEN CHOOSE i \in 1..Len(lexemes) :
            /\ lexemes[i] = "/"
            /\ \A j \in (i + 1)..Len(lexemes) : lexemes[j] # "/"
    ELSE 0

\* url.Parse: no control character anywhere, an optional scheme before ":",
\* after "//" the host up to the next "/" with no blank in it, then the path.
url_Parse(raw) ==
    LET hasScheme == Len(raw) >= 2 /\ raw[2] = ":"
        rest == IF hasScheme THEN SubSeq(raw, 3, Len(raw)) ELSE raw
        hasHost == rest # <<>> /\ Head(rest) = "//"
        after == IF hasHost THEN Tail(rest) ELSE rest
        cut == FirstSlash(after)
        authority == IF hasHost THEN SubSeq(after, 1, cut - 1) ELSE <<>>
        path == IF hasHost THEN SubSeq(after, cut, Len(after)) ELSE after
    IN  IF \E i \in 1..Len(raw) : raw[i] = "\n"
        THEN [url |-> NoURL,
              err |-> errors_New("net/url: invalid control character in URL")]
        ELSE IF \E i \in 1..Len(authority) : authority[i] = " "
        THEN [url |-> NoURL,
              err |-> errors_New("invalid character \" \" in host name")]
        ELSE [url |-> URL(IF hasScheme THEN raw[1] ELSE "", Join(authority), path),
              err |-> NoError]

\* (*url.URL).String.
url_String(u) ==
    (IF u.Scheme # "" THEN u.Scheme \o ":" ELSE "")
    \o (IF u.Host # "" THEN "//" \o u.Host ELSE "")
    \o Join(u.Path)

\* (*url.URL).Parse of a relative path: the reference replaces what follows
\* the last "/" of the base path; an empty base path counts as "/".
url_ResolveReference(base, ref) ==
    URL(base.Scheme, base.Host,
        IF LastSlash(base.Path) = 0 THEN <<"/">> \o ref
        ELSE SubSeq(base.Path, 1, LastSlash(base.Path)) \o ref)

\* defaultBaseURL, "https://api.github.com/".
defaultBaseURL == <<"https", ":", "//", "api.github.com", "/">>

\* *http.Client: Transport is the stack of oauth2.Transport layers around the
\* default transport, outermost first, each layer given by the token source
\* it reads its bearer credential from.  cleanHTTPClient() has none.
HTTPClient(transport) == [Transport |-> transport]
cleanHTTPClient == HTTPClient(<<>>)

\* newGitHubClient: the client starts with the default base URL.
newGitHubClient(httpClient) ==
    [baseURL |-> url_Parse(defaultBaseURL).url, client |-> httpClient]

\* A variant that assigns the result of url.Parse before looking at the
\* error, which leaves the client without a base URL on a parse error.
withEnterpriseURL_AssignFirst(c, baseURL) ==
    LET base == url_Parse(baseURL)
    IN  [client |-> [c EXCEPT !.baseURL = base.url],
         err |-> IF base.err # NoError
                 THEN Error("failed to parse base URL: " \o base.err.msg, 0, "")
                 ELSE NoError]

\* githubClient.withEnterpriseURL: the parsed URL becomes the base URL; on a
\* parse error the client is left as it was.
withEnterpriseURL(c, baseURL) ==
    LET base == url_Parse(baseURL)
    IN  IF base.err # NoError
        THEN [client |-> c,
              err |-> Error("failed to parse base URL: " \o base.err.msg, 0, "")]
        ELSE [client |-> [c EXCEPT !.baseURL = base.url], err |-> NoError]

\* The endpoint of createInstallationToken, resolved against the base URL.
endpoint(installationID) ==
    <<"app", "/", "installations", "/", FormatInt(installationID), "/",
      "access_tokens">>

requestURL(c, installationID) ==
    url_String(url_ResolveReference(c.baseURL, endpoint(installationID)))

\* ------------------------------------------------------ installation source
\* oauth2.ReuseTokenSource(nil, src): a source that is a reuse wrapper
\* already is handed back as it is, any other is wrapped.
ReuseTokenSource(src) == [src EXCEPT !.reuse = TRUE]

\* The options of the installation source.  WithHTTPClient is given the
\* caller's *http.Client, of which a program here has one.
\* *github.InstallationTokenOptions is told by a name, "nil" the nil pointer.
InstallationTokenSourceOpt(opt, baseURL, uploadURL, opts) ==
    [opt |-> opt, baseURL |-> baseURL, uploadURL |-> uploadURL, opts |-> opts]
WithInstallationTokenOptions(opts) ==
    InstallationTokenSourceOpt("WithInstallationTokenOptions", <<>>, <<>>, opts)
WithHTTPClient == InstallationTokenSourceOpt("WithHTTPClient", <<>>, <<>>, "nil")
WithEnterpriseURLs(baseURL, uploadURL) ==
    InstallationTokenSourceOpt("WithEnterpriseURLs", baseURL, uploadURL, "nil")

\* A variant of the option that keeps the base URL of the client in place
\* when it is given a new HTTP client.
ApplyOpt_KeepBaseURL(i, client, o) ==
    IF o.opt = "WithHTTPClient"
    THEN LET wrapped == HTTPClient(<<i.src>> \o client.Transport)
         IN  [i |-> [i EXCEPT !.client.client = wrapped], client |-> wrapped]
    ELSE IF o.opt = "WithInstallationTokenOptions"
    THEN [i |-> [i EXCEPT !.opts = o.opts], client |-> client]
    ELSE LET enterpriseClient == withEnterpriseURL(i.client, o.baseURL)
         IN  IF enterpriseClient.err # NoError
                  \/ url_Parse(o.uploadURL).err # NoError
             THEN [i |-> i, client |-> client]
             ELSE [i |-> [i EXCEPT !.client = enterpriseClient.client],
                   client |-> client]

\* One option applied to the source i under construction; client is the
\* caller's *http.Client, which WithHTTPClient changes in place: it puts an
\* oauth2.Transport reading i.src around the client's transport, and gives
\* the source a new API client on it, which keeps the client as it is then.
\* WithEnterpriseURLs replaces the API client by one with the given URLs,
\* and does nothing if they do not parse.
ApplyOpt(i, client, o) ==
    IF o.opt = "WithHTTPClient"
    THEN LET wrapped == HTTPClient(<<i.src>> \o client.Transport)
         IN  [i |-> [i EXCEPT !.client = newGitHubClient(wrapped)],
              client |-> wrapped]
    ELSE IF o.opt = "WithInstallationTokenOptions"
    THEN [i |-> [i EXCEPT !.opts = o.opts], client |-> client]
    ELSE LET enterpriseClient == withEnterpriseURL(i.client, o.baseURL)
         IN  IF enterpriseClient.err # NoError
                  \/ url_Parse(o.uploadURL).err # NoError
             THEN [i |-> i, client |-> client]
             ELSE [i |-> [i EXCEPT !.client = enterpriseClient.client],
                   client |-> client]

\* for _, opt := range opts { opt(i) }
RECURSIVE ApplyOpts(_, _, _)
ApplyOpts(i, client, opts) ==
    IF opts = <<>> THEN [i |-> i, client |-> client]
    ELSE LET next == ApplyOpt(i, client, Head(opts))
         IN  ApplyOpts(next.i, next.client, Tail(opts))

\* A variant whose own transport reads the installation source being built
\* instead of the JWT source.
Construction_SelfAuthenticating(id, src, opts, client) ==
    ApplyOpts([kind |-> "inst", reuse |-> FALSE, id |-> id, src |-> src,
               opts |-> "nil",
               client |-> newGitHubClient(HTTPClient(
                   <<[kind |-> "inst", reuse |-> TRUE, id |-> id, src |-> src,
                      opts |-> "nil"]>>))],
              client, opts)

\* NewInstallationTokenSource with the state the caller's *http.Client is in
\* made explicit: the source before it is wrapped, and the client after the
\* options have run.
Construction(id, src, opts, client) ==
    ApplyOpts([kind |-> "inst", reuse |-> FALSE, id |-> id, src |-> src,
               opts |-> "nil",
               client |-> newGitHubClient(HTTPClient(<<ReuseTokenSource(src)>>))],
              client, opts)

\* A variant that hands back the bare source.
NewInstallationTokenSource_Bare(id, src, opts) ==
    Construction(id, src, opts, cleanHTTPClient).i

\* NewInstallationTokenSource(id, src, opts...), the caller's *http.Client
\* being a new one: the source is returned inside a reuse wrapper.
NewInstallationTokenSource(id, src, opts) ==
    ReuseTokenSource(Construction(id, src, opts, cleanHTTPClient).i)

\* A variant that drops the client's error and builds a token anyway.
installationTokenSource_Token_Swallow(t, r, serial) ==
    LET token == createInstallationToken(r, serial)
    IN  Ok(Token(token.token, bearerTokenType, token.expiresAt))

\* A variant that fails when the response carries no token.
installationTokenSource_Token_RequireToken(t, r, serial) ==
    LET token == createInstallationToken(r, serial)
    IN  IF token.err # NoError THEN Fail(token.err)
        ELSE IF token.token = EmptyString
        THEN Fail(errors_New("empty installation token"))
        ELSE Ok(Token(token.token, bearerTokenType, token.expiresAt))

\* installationTokenSource.Token, given the API exchange r.
installationTokenSource_Token(t, r, serial) ==
    LET token == createInstallationToken(r, serial)
    IN  IF token.err # NoError THEN Fail(token.err)
        ELSE Ok(Token(token.token, bearerTokenType, token.expiresAt))

\* ------------------------------------------------- personal access token
\* A variant that wraps the static source like the other two constructors.
NewPersonalAccessTokenSource_Wrapped(token) ==
    [kind |-> "pat", reuse |-> TRUE, token |-> token]

\* A variant that hands back no source for the empty token.
NewPersonalAccessTokenSource_Validating(token) ==
    IF token = EmptyString THEN NilSource
    ELSE [kind |-> "pat", reuse |-> FALSE, token |-> token]

\* NewPersonalAccessTokenSource returns the bare source, no wrapper.
NewPersonalAccessTokenSource(token) ==
    [kind |-> "pat", reuse |-> FALSE, token |-> token]

\* A variant that takes a token of white space for no token.
personalAccessTokenSource_Token_TrimSpace(t) ==
    IF t.token.s \in {"", " "} THEN Fail(errors_New("token not provided"))
    ELSE Ok(Token(t.token, bearerTokenType, 0))

\* personalAccessTokenSource.Token: the stored token, never expiring.
personalAccessTokenSource_Token(t) ==
    IF t.token = EmptyString THEN Fail(errors_New("token not provided"))
    ELSE Ok(Token(t.token, bearerTokenType, 0))

\* ------------------------------------------------------------ state
VARIABLES
    ts,        \* the token source under test, as its constructor returned it
    now,       \* wall clock
    mu,        \* reuseTokenSource.mu of the source under test: holder or 0
    amu,       \* reuseTokenSource.mu of the JWT source: holder or 0
    cache,     \* reuseTokenSource.t of the source under test
    jwt,       \* reuseTokenSource.t of the JWT source the transport reads
    pc,        \* per caller: "idle", "called" (inside Token()), "gen"
    gen,       \* per caller: its running underlying Token() (serial, start)
    ret,       \* the latest return of Token(): result and API exchange
    genCalls,  \* calls of the underlying Token() so far
    jwtCalls,  \* calls of applicationTokenSource.Token by the transport
    last,      \* history: token of the latest successful underlying call
    stale,     \* history: serials of held tokens a failed refresh found expired
    joined,    \* history: callers whose running Token() call has waited while
               \* another call's refresh returned a token valid on return
    ctor,      \* history: the constructor call that built ts, and its error
    claims,    \* history: the claims of the latest JWT signed, and when
    api,       \* the githubClient, with its latest configuration and request
    net        \* a program with several installation sources: the caller's
               \* *http.Client, the sources built, their latest request

sourceVars == <<ts, now, mu, amu, cache, jwt, pc, gen, ret, genCalls, jwtCalls, last,
                stale, joined, ctor, claims>>
vars == <<sourceVars, api, net>>

NoResponse == Response(FALSE, 0, "", 0)

\* A running call of the underlying Token(): its serial n, started at time
\* at, its API request carrying the bearer credential auth.
Running(n, at, auth) == [n |-> n, at |-> at, auth |-> auth]
NoGen == Running(0, 0, NilToken)

\* The claims signed into a JWT at wall-clock time at.
Signed(c, at) == [c |-> c, at |-> at]
NoneSigned == Signed(NoClaims, 0)

\* What a Token() call handed back: st is "ok" or "err", fresh tells whether
\* the call ran the underlying Token(), resp is the API exchange it saw, and
\* waited whether the caller was in joined when its call decided.
Return(st, tok, err, fresh, r, waited) ==
    [st |-> st, tok |-> tok, err |-> err, fresh |-> fresh, resp |-> r,
     waited |-> waited]
NoReturn == Return("none", NilToken, NoError, FALSE, NoResponse, FALSE)

\* ------------------------------------------------------------ inputs
Identifier(type, n, s) == [type |-> type, n |-> n, s |-> s]
NumericAppID == Identifier("int64", 12345, "")
Identifiers == {NumericAppID, Identifier("string", 0, "Iv1.x"),
                Identifier("int64", 0, ""), Identifier("string", 0, ""),
                Identifier("AppID", 12345, "")}
ExpirationOpts == {<<>>, <<ShortExp>>, <<ClockDrift>>, <<MidExp>>,
                   <<DefaultApplicationTokenExpiration + 300 * Second>>, <<0>>,
                   <<0 - Second>>}
PatTokens == {EmptyString, Str(" ", 0), Str("ghp_x", 0)}

ClientOpts == {<<>>, <<WithHTTPClient>>}

\* The constructor calls a program makes.  An installation source gets its
\* JWT source from NewApplicationTokenSource, here with a lifetime short
\* enough for the JWT to run out while the clock advances.
ApplicationCalls ==
    {[fn |-> "NewApplicationTokenSource", id |-> i, privateKey |-> k, opts |-> o] :
        i \in Identifiers, k \in PrivateKeys, o \in ExpirationOpts}

InstallationCalls ==
    {[fn |-> "NewInstallationTokenSource", installationID |-> 1,
      src |-> NewApplicationTokenSource(NumericAppID, "rsa.pem", o).src,
      clientOpts |-> co] :
        o \in {<<MidExp>>}, co \in ClientOpts}

PersonalCalls ==
    {[fn |-> "NewPersonalAccessTokenSource", token |-> t] : t \in PatTokens}

\* What a constructor call returns: the source and the error.
Construct(call) ==
    CASE call.fn = "NewApplicationTokenSource" ->
            NewApplicationTokenSource(call.id, call.privateKey, call.opts)
      [] call.fn = "NewInstallationTokenSource" ->
            [src |-> NewInstallationTokenSource(call.installationID, call.src,
                                                call.clientOpts),
             err |-> NoError]
      [] call.fn = "NewPersonalAccessTokenSource" ->
            [src |-> NewPersonalAccessTokenSource(call.token), err |-> NoError]

ApplicationSources ==
    {r.src : r \in {a \in {Construct(call) : call \in ApplicationCalls} :
                      a.err = NoError}}

TokenSources ==
    {Construct(call).src : call \in ApplicationCalls}
    \cup {Construct(call).src : call \in InstallationCalls}
    \cup {Construct(call).src : call \in PersonalCalls}

\* The state after the constructor call has returned.
Constructed(call) ==
    /\ ctor = [call |-> call, err |-> Construct(call).err]
    /\ ts = Construct(call).src

\* The githubClient with what was done to it last: the URL text given to
\* withEnterpriseURL and the error it returned; the URL, installation id and
\* response of the latest request and what createInstallationToken returned.
ApiState(client, configured, err, url, id, resp, result) ==
    [client |-> client, configured |-> configured, err |-> err, url |-> url,
     id |-> id, resp |-> resp, result |-> result]
NoResult == [token |-> EmptyString, expiresAt |-> 0, err |-> NoError]
NewApi == ApiState(newGitHubClient(cleanHTTPClient), <<>>, NoError, "", 0, NoResponse, NoResult)

\* A program with the installation sources named in SourceNames, each with
\* an upstream JWT source of its own, in the order built: the caller's
\* *http.Client, the sources (NilSource while not built) with the option
\* lists they were given, and the latest API request: the source sending it,
\* its URL and body, the issuers of the JWTs the transport layers asked for,
\* outermost first, the issuer of the JWT in the Authorization header the
\* server receives, the response, and what Token() returned.
SourceNames == {"a", "b"}
Upstream(k) ==
    NewApplicationTokenSource(
        Identifier("string", 0, IF k = "a" THEN "Iv1.a" ELSE "Iv1.b"),
        "rsa.pem", <<>>).src
InstallationIDOf(k) == IF k = "a" THEN 1 ELSE 12345
Request(by, url, body, signed, auth, resp, out) ==
    [by |-> by, url |-> url, body |-> body, signed |-> signed, auth |-> auth,
     resp |-> resp, out |-> out]
NoRequest == Request("", "", "nil", <<>>, "", NoResponse, Ok(NilToken))
NewNet ==
    [client |-> cleanHTTPClient,
     src |-> [k \in SourceNames |-> NilSource],
     given |-> [k \in SourceNames |-> <<>>],
     built |-> <<>>,
     req |-> NoRequest]

\* A variant in which the constructor starts an underlying Token() in the
\* background, with no caller asking.
Fresh_Prefetching ==
    /\ claims = NoneSigned
    /\ now = StartTime
    /\ mu = 0
    /\ amu = 0
    /\ cache = NilToken
    /\ jwt = NilToken
    /\ pc = [c \in Callers |-> "idle"]
    /\ gen = [c \in Callers |->
                IF c = 1 THEN Running(1, StartTime, NilToken) ELSE NoGen]
    /\ ret = NoReturn
    /\ genCalls = 1
    /\ jwtCalls = 0
    /\ last = NilToken
    /\ stale = {}
    /\ joined = {}

\* No Token() call has been made yet.
Fresh ==
    /\ claims = NoneSigned
    /\ now = StartTime
    /\ mu = 0
    /\ amu = 0
    /\ cache = NilToken
    /\ jwt = NilToken
    /\ pc = [c \in Callers |-> "idle"]
    /\ gen = [c \in Callers |-> NoGen]
    /\ ret = NoReturn
    /\ genCalls = 0
    /\ jwtCalls = 0
    /\ last = NilToken
    /\ stale = {}
    /\ joined = {}

Init ==
    /\ \/ \E call \in ApplicationCalls : Constructed(call)
       \/ \E call \in InstallationCalls : Constructed(call)
       \/ \E call \in PersonalCalls : Constructed(call)
    /\ Fresh
    /\ api = NewApi
    /\ net = NewNet

\* ------------------------------------------------------------ actions
\* The wall clock advances.
Tick ==
    /\ now < MaxTime
    /\ now' = now + Quantum
    /\ UNCHANGED <<ts, mu, cache, jwt, pc, gen, ret, genCalls, jwtCalls, last,
                   stale, joined, ctor, claims, api, net, amu>>

\* A caller invokes Token() on the source under test.
Call(c) ==
    /\ ts # NilSource
    /\ pc[c] = "idle"
    /\ pc' = [pc EXCEPT ![c] = "called"]
    /\ UNCHANGED <<ts, now, mu, cache, jwt, gen, ret, genCalls, jwtCalls, last,
                   stale, joined, ctor, claims, api, net, amu>>

\* oauth2.Transport.RoundTrip of the installation client reads its JWT
\* source, itself a reuse wrapper, before the request leaves.
TransportToken ==
    IF ts.kind = "inst"
          /\ ~(Head(ts.client.client.Transport).reuse /\ Valid(jwt, now))
    THEN /\ jwt' = applicationTokenSource_Token(ts.src, now, jwtCalls + 1).tok
         /\ jwtCalls' = jwtCalls + 1
         /\ claims' = Signed(RegisteredClaims(ts.src, now), now)
    ELSE UNCHANGED <<jwt, jwtCalls, claims>>

\* The underlying Token() of caller c starts; an installation source sends
\* its API request with the bearer credential the transport has read.
StartGenerate(c) ==
    /\ genCalls < MaxGen
    /\ genCalls' = genCalls + 1
    /\ TransportToken
    /\ gen' = [gen EXCEPT ![c] = Running(genCalls + 1, now,
                   IF ts.kind = "inst" THEN jwt' ELSE NilToken)]
    /\ pc' = [pc EXCEPT ![c] = "gen"]

\* reuseTokenSource.Token up to the call of the wrapped source: lock, then
\* return the held token if Valid.  A bare source calls its Token() at once.
Enter(c) ==
    /\ pc[c] = "called"
    /\ IF ts.reuse
       THEN /\ mu = 0
            /\ IF Valid(cache, now)
               THEN /\ ret' = Return("ok", cache, NoError, FALSE, NoResponse,
                                    c \in joined)
                    /\ pc' = [pc EXCEPT ![c] = "idle"]
                    /\ joined' = joined \ {c}
                    /\ UNCHANGED <<mu, gen, genCalls, jwt, jwtCalls, claims>>
               ELSE /\ mu' = c
                    /\ StartGenerate(c)
                    /\ UNCHANGED <<ret, joined>>
       ELSE /\ StartGenerate(c)
            /\ UNCHANGED <<mu, ret, joined>>
    /\ UNCHANGED <<ts, now, cache, last, stale, ctor, api, net, amu>>

\* What the underlying Token() of the source under test returns.
Generate(r, serial) ==
    CASE ts.kind = "app" -> applicationTokenSource_Token(ts, now, serial)
      [] ts.kind = "inst" -> installationTokenSource_Token(ts, r, serial)
      [] ts.kind = "pat" -> personalAccessTokenSource_Token(ts)

\* The underlying Token() of caller c returns; the wrapper stores a
\* successful result, unlocks, and Token() returns to the caller.
Finish(c, r) ==
    LET out == Generate(r, gen[c].n)
    IN  /\ pc[c] = "gen"
        /\ pc' = [pc EXCEPT ![c] = "idle"]
        /\ gen' = [gen EXCEPT ![c] = NoGen]
        /\ ret' = Return(IF out.err = NoError THEN "ok" ELSE "err", out.tok,
                         out.err, TRUE, r, c \in joined)
        /\ IF ts.reuse
           THEN /\ mu' = 0
                /\ cache' = IF out.err = NoError THEN out.tok ELSE cache
           ELSE UNCHANGED <<mu, cache>>
        /\ last' = IF out.err = NoError THEN out.tok ELSE last
        /\ stale' = IF out.err # NoError /\ cache # NilToken /\ expired(cache, now)
                    THEN stale \cup {cache.AccessToken.n} ELSE stale
        /\ joined' = IF out.err = NoError /\ Valid(out.tok, now)
                     THEN (joined \cup {d \in Callers : pc[d] = "called"}) \ {c}
                     ELSE joined \ {c}
        /\ claims' = IF ts.kind = "app"
                      THEN Signed(RegisteredClaims(ts, now), now) ELSE claims
        /\ UNCHANGED <<ts, now, jwt, genCalls, jwtCalls, ctor, api, net, amu>>

GenReturn(c) ==
    IF ts.kind = "inst"
    THEN \E r \in Responses(now) : Finish(c, r)
    ELSE Finish(c, NoResponse)

Next ==
    \/ Tick
    \/ \E c \in Callers : Call(c)
    \/ \E c \in Callers : Enter(c)
    \/ \E c \in Callers : GenReturn(c)

Spec == Init /\ [][Next]_vars

\* ------------------------------------------------------------ API client
\* The githubClient on its own: it is given base URLs and asked for tokens,
\* the server answering with any status and body.
RawURLs ==
    {<<"https", ":", "//", "ghes.example.com">>,
     <<"https", ":", "//", "ghes.example.com", "/">>,
     <<"https", ":", "//", "example.com", "/", "api", "/", "v3">>,
     <<"https", ":", "//", "example.com", "/", "api", "/", "v3", "/">>,
     <<"https", ":", "//", "api.github.example.com">>,
     <<"https", ":", "//", "api.github.example.com", "/">>,
     <<"https", ":", "//", "ghes.api.example.com">>,
     <<"https", ":", "//", "ghes.api.example.com", "/">>,
     <<"ht", "\n", "tp", ":", "//", "invalid">>,
     <<"http", ":", "//", "invalid", " ", "url", " ", "with", " ", "spaces">>}

InstallationIDs == {1, 12345}

Statuses == {StatusOK, StatusCreated, StatusAccepted, StatusBadRequest,
             StatusNotFound, StatusInternalServerError}

ClientResponses ==
    {Response(TRUE, 0, "", 0)}
    \cup {Response(FALSE, st, b, IF b = "full" THEN StartTime + LongLife ELSE 0) :
            st \in Statuses, b \in Bodies}

ClientInit ==
    /\ \E call \in InstallationCalls :
          call.clientOpts = <<>> /\ Constructed(call)
    /\ Fresh
    /\ api = NewApi
    /\ net = NewNet

\* c.withEnterpriseURL(raw).
WithEnterpriseURL(raw) ==
    LET out == withEnterpriseURL(api.client, raw)
    IN  /\ api' = [api EXCEPT !.client = out.client, !.configured = raw,
                              !.err = out.err]
        /\ UNCHANGED <<sourceVars, net>>

\* c.createInstallationToken(ctx, id, nil), the server answering r.
CreateInstallationToken(id, r) ==
    /\ api' = [api EXCEPT !.url = requestURL(api.client, id), !.id = id,
                          !.resp = r, !.result = createInstallationToken(r, 1)]
    /\ UNCHANGED <<sourceVars, net>>

ClientNext ==
    \/ \E raw \in RawURLs : WithEnterpriseURL(raw)
    \/ \E id \in InstallationIDs, r \in ClientResponses :
          CreateInstallationToken(id, r)

ClientSpec == ClientInit /\ [][ClientNext]_vars

\* ------------------------------------------------- installation options
\* A program builds its installation sources one after the other, handing
\* each the same *http.Client where it uses WithHTTPClient, and asks them
\* for tokens.
EnterpriseURL == <<"https", ":", "//", "ghes.example.com", "/", "api", "/", "v3", "/">>
UploadURL == <<"https", ":", "//", "ghes.example.com", "/", "api", "/", "uploads", "/">>
MalformedURL == <<"ht", "\n", "tp", ":", "//", "invalid">>

ClientOptions ==
    {WithHTTPClient, WithEnterpriseURLs(EnterpriseURL, UploadURL),
     WithEnterpriseURLs(MalformedURL, UploadURL)}
InstallationOptions ==
    ClientOptions \cup {WithInstallationTokenOptions("repositories"),
                        WithEnterpriseURLs(EnterpriseURL, MalformedURL)}
OptionLists ==
    {<<>>} \cup {<<o>> : o \in InstallationOptions}
    \cup {<<o, p>> : o \in InstallationOptions, p \in InstallationOptions}
    \cup {<<o, p, q>> : o \in ClientOptions, p \in ClientOptions,
                        q \in ClientOptions}

OptionResponses ==
    {Response(TRUE, 0, "", 0),
     Response(FALSE, StatusCreated, "full", StartTime + LongLife),
     Response(FALSE, StatusCreated, "noexp", 0),
     Response(FALSE, StatusOK, "empty", 0),
     Response(FALSE, StatusCreated, "empty", 0),
     Response(FALSE, StatusNotFound, "empty", 0)}

OptionInit ==
    /\ \E call \in InstallationCalls :
          call.clientOpts = <<>> /\ Constructed(call)
    /\ Fresh
    /\ api = NewApi
    /\ net = NewNet

\* NewInstallationTokenSource(id, src, opts...) for the source named k.
NewSource(k, opts) ==
    LET c == Construction(InstallationIDOf(k), Upstream(k), opts, net.client)
    IN  /\ net.src[k] = NilSource
        /\ net' = [net EXCEPT !.client = c.client,
                              !.src[k] = ReuseTokenSource(c.i),
                              !.given[k] = opts,
                              !.built = Append(@, k)]
        /\ UNCHANGED <<sourceVars, api>>

\* installationTokenSource.Token of the source named k, the server answering
\* r: every oauth2.Transport layer of its client asks its source for a JWT
\* and sets the Authorization header, the innermost layer last.
Acquire(k, r) ==
    LET i == net.src[k]
        layers == i.client.client.Transport
        signed == [j \in 1..Len(layers) |->
                      RegisteredClaims(layers[j], now).Issuer]
    IN  /\ i # NilSource
        /\ net' = [net EXCEPT !.req =
                      Request(k, requestURL(i.client, i.id), i.opts, signed,
                              signed[Len(signed)], r,
                              installationTokenSource_Token(i, r, 1))]
        /\ UNCHANGED <<sourceVars, api>>

OptionNext ==
    \/ \E k \in SourceNames, opts \in OptionLists : NewSource(k, opts)
    \/ \E k \in SourceNames, r \in OptionResponses : Acquire(k, r)

OptionSpec == OptionInit /\ [][OptionNext]_vars

\* ------------------------------------------------- the two cache layers
\* Callers of Token() on the installation wrapper and on the JWT wrapper its
\* transport reads, each step of oauth2.reuseTokenSource.Token on its own:
\* pc is "idle", "inst.called", "inst.request" (holding the installation
\* wrapper's mutex, the request at the transport), "inst.sign" (the
\* transport's source signing), "inst.http" (the request at the server),
\* "app.called", "app.sign".
LockCalls ==
    {[fn |-> "NewInstallationTokenSource", installationID |-> 1,
      src |-> NewApplicationTokenSource(NumericAppID, "rsa.pem", o).src,
      clientOpts |-> co] :
        o \in {<<ShortExp>>, <<MidExp>>}, co \in ClientOpts}

\* The server fails, or grants a token that outlasts the safety margin, or
\* one that does not.
LockResponses ==
    {Response(TRUE, 0, "", 0),
     Response(FALSE, StatusCreated, "full", StartTime + LongLife),
     Response(FALSE, StatusCreated, "full", StartTime + ShortLife)}

LockInit ==
    /\ \E call \in LockCalls : Constructed(call)
    /\ Fresh
    /\ api = NewApi
    /\ net = NewNet

\* The token source the oauth2.Transport of the source under test reads.
Layer == Head(ts.client.client.Transport)

\* Caller c invokes Token() on wrapper w.
LockCall(c, w) ==
    /\ pc[c] = "idle"
    /\ pc' = [pc EXCEPT ![c] = w]
    /\ UNCHANGED <<ts, now, mu, amu, cache, jwt, gen, ret, genCalls, jwtCalls,
                   last, stale, joined, ctor, claims, api, net>>

\* The installation wrapper: lock; a valid held token is returned and the
\* mutex released, otherwise installationTokenSource.Token is called.
InstLock(c) ==
    /\ pc[c] = "inst.called"
    /\ mu = 0
    /\ IF Valid(cache, now)
       THEN /\ pc' = [pc EXCEPT ![c] = "idle"]
            /\ ret' = Return("ok", cache, NoError, FALSE, NoResponse, FALSE)
            /\ UNCHANGED mu
       ELSE /\ pc' = [pc EXCEPT ![c] = "inst.request"]
            /\ mu' = c
            /\ UNCHANGED ret
    /\ UNCHANGED <<ts, now, amu, cache, jwt, gen, genCalls, jwtCalls,
                   last, stale, joined, ctor, claims, api, net>>

\* oauth2.Transport.RoundTrip calls Token() of its source: a reuse wrapper
\* locks its mutex, that of the installation wrapper if the source is one,
\* and goes on to sign unless it holds a valid token.
TransportLock(c) ==
    /\ pc[c] = "inst.request"
    /\ IF ~Layer.reuse
       THEN /\ pc' = [pc EXCEPT ![c] = "inst.sign"]
            /\ UNCHANGED <<mu, amu>>
       ELSE IF Layer.kind = "inst"
       THEN /\ mu = 0
            /\ mu' = c
            /\ pc' = [pc EXCEPT ![c] = "inst.request"]
            /\ UNCHANGED amu
       ELSE /\ amu = 0
            /\ IF Valid(jwt, now)
               THEN /\ pc' = [pc EXCEPT ![c] = "inst.http"]
                    /\ UNCHANGED amu
               ELSE /\ pc' = [pc EXCEPT ![c] = "inst.sign"]
                    /\ amu' = c
            /\ UNCHANGED mu
    /\ UNCHANGED <<ts, now, cache, jwt, gen, ret, genCalls, jwtCalls,
                   last, stale, joined, ctor, claims, api, net>>

\* applicationTokenSource.Token returns to the transport; the wrapper stores
\* the JWT and unlocks, and the request leaves.
TransportSign(c) ==
    /\ pc[c] = "inst.sign"
    /\ jwt' = applicationTokenSource_Token(ts.src, now, 1).tok
    /\ claims' = Signed(RegisteredClaims(ts.src, now), now)
    /\ amu' = IF amu = c THEN 0 ELSE amu
    /\ pc' = [pc EXCEPT ![c] = "inst.http"]
    /\ UNCHANGED <<ts, now, mu, cache, gen, ret, genCalls, jwtCalls,
                   last, stale, joined, ctor, api, net>>

\* The server answers r: installationTokenSource.Token returns, the wrapper
\* stores a successful result and unlocks, on success and on failure.
InstRespond(c, r) ==
    LET out == installationTokenSource_Token(ts, r, 1)
    IN  /\ pc[c] = "inst.http"
        /\ cache' = IF out.err = NoError THEN out.tok ELSE cache
        /\ ret' = Return(IF out.err = NoError THEN "ok" ELSE "err", out.tok,
                         out.err, TRUE, r, FALSE)
        /\ mu' = 0
        /\ pc' = [pc EXCEPT ![c] = "idle"]
        /\ UNCHANGED <<ts, now, amu, jwt, gen, genCalls, jwtCalls,
                       last, stale, joined, ctor, claims, api, net>>

\* The JWT wrapper called directly: lock; a valid held JWT is returned and
\* the mutex released, otherwise applicationTokenSource.Token is called.
AppLock(c) ==
    /\ pc[c] = "app.called"
    /\ amu = 0
    /\ IF Valid(jwt, now)
       THEN /\ pc' = [pc EXCEPT ![c] = "idle"]
            /\ ret' = Return("ok", jwt, NoError, FALSE, NoResponse, FALSE)
            /\ UNCHANGED amu
       ELSE /\ pc' = [pc EXCEPT ![c] = "app.sign"]
            /\ amu' = c
            /\ UNCHANGED ret
    /\ UNCHANGED <<ts, now, mu, cache, jwt, gen, genCalls, jwtCalls,
                   last, stale, joined, ctor, claims, api, net>>

\* applicationTokenSource.Token returns to the direct caller.
AppSign(c) ==
    LET out == applicationTokenSource_Token(ts.src, now, 1)
    IN  /\ pc[c] = "app.sign"
        /\ jwt' = out.tok
        /\ claims' = Signed(RegisteredClaims(ts.src, now), now)
        /\ ret' = Return("ok", out.tok, NoError, TRUE, NoResponse, FALSE)
        /\ amu' = 0
        /\ pc' = [pc EXCEPT ![c] = "idle"]
        /\ UNCHANGED <<ts, now, mu, cache, gen, genCalls, jwtCalls,
                       last, stale, joined, ctor, api, net>>

LockNext ==
    \/ \E c \in Callers, w \in {"inst.called", "app.called"} : LockCall(c, w)
    \/ \E c \in Callers : InstLock(c)
    \/ \E c \in Callers : TransportLock(c)
    \/ \E c \in Callers : TransportSign(c)
    \/ \E c \in Callers, r \in LockResponses : InstRespond(c, r)
    \/ \E c \in Callers : AppLock(c)
    \/ \E c \in Callers : AppSign(c)

\* sync.Mutex hands the lock to a goroutine that keeps waiting for it
\* (starvation mode), and every signing step and HTTP call returns.
LockFairness ==
    \A c \in Callers :
        /\ SF_vars(InstLock(c))
        /\ SF_vars(TransportLock(c))
        /\ SF_vars(AppLock(c))
        /\ WF_vars(TransportSign(c))
        /\ WF_vars(AppSign(c))
        /\ WF_vars(\E r \in LockResponses : InstRespond(c, r))

LockSpec == LockInit /\ [][LockNext]_vars /\ LockFairness

TypeOK ==
    /\ now \in StartTime..MaxTime
    /\ mu \in 0..NumCallers
    /\ genCalls \in 0..MaxGen
    /\ \A c \in Callers : pc[c] \in {"idle", "called", "gen"}

\* ------------------------------------------------------------ vocabulary
\* The constructors documented to return a reuse-wrapped source.
Reusing == ts.kind \in {"app", "inst"}

\* Steps of one Token() call of caller c: it decides (reuse or regenerate),
\* it returns, it is served from the held token.
Decides(c) == pc[c] = "called" /\ pc'[c] # "called"
Returns(c) == pc[c] # "idle" /\ pc'[c] = "idle"
Regenerates(c) == pc'[c] = "gen" /\ genCalls' = genCalls + 1
ServedHeld(c, t) ==
    /\ pc'[c] = "idle"
    /\ genCalls' = genCalls
    /\ ret' = Return("ok", t, NoError, FALSE, NoResponse, c \in joined)

InFlight == Cardinality({c \in Callers : pc[c] = "gen"})

\* ------------------------------------------------------------ claims

C3_ReturnedCurrent ==
    [][\A c \in Callers :
          (Returns(c) /\ ret'.st = "ok")
              => (ret'.tok.Expiry = 0 \/ ret'.tok.Expiry > now)]_vars

\* C4 as stated: a caller whose Token() call was waiting while another
\* caller's underlying call returned a token valid on return starts no
\* underlying call of its own and gets that token.
C4_SingleRefreshForWaiters ==
    [][\A c \in Callers :
          (Reusing /\ c \in joined /\ Decides(c)) => ServedHeld(c, last)]_vars

\* C4 amended: such a waiting caller starts no underlying call and gets the
\* token of the refresh it waited for, provided that token is still valid
\* when the caller obtains the lock.
C4_SingleRefreshWhileValid ==
    [][\A c \in Callers :
          (Reusing /\ c \in joined /\ Decides(c) /\ Valid(last, now))
              => (ServedHeld(c, last) /\ last = cache)]_vars

\* A caller that waited during the only refresh has returned with its token.
C4_Witness ==
    /\ ts.kind = "app"
    /\ genCalls = 1
    /\ ret.waited
    /\ ret.st = "ok" /\ ~ret.fresh /\ ret.tok = cache

\* C5: a wrapped source never has two underlying calls running, the lock is
\* held exactly while one runs, the held token is always the latest
\* successfully generated one, and every token returned is either the held
\* token or the result of the caller's own underlying call, as a whole.
C5_Serialized ==
    /\ [](Reusing => (InFlight <= 1 /\ (mu # 0 <=> InFlight = 1)
                      /\ cache = last
                      /\ (mu # 0 => pc[mu] = "gen")))
    /\ [][\A c \in Callers :
             (Reusing /\ Returns(c) /\ ret'.st = "ok")
                 => \/ (~ret'.fresh /\ ret'.tok = cache /\ cache' = cache)
                    \/ (ret'.fresh /\ ret'.tok = cache'
                        /\ ret'.tok.AccessToken.n \in {0, gen[c].n})]_vars

\* One caller runs the underlying call while the other waits for the lock.
C5_Witness ==
    /\ Reusing
    /\ \E c \in Callers, d \in Callers :
          /\ pc[c] = "gen" /\ mu = c
          /\ pc[d] = "called"
          /\ cache # NilToken

\* The API exchange failed: no response, a status other than 200 and 201, or
\* an undecodable body.
ApiFailed(r) ==
    \/ r.failed
    \/ r.status \notin {StatusOK, StatusCreated}
    \/ r.body = "garbage"

\* C6: when the installation wrapper holds no token and the API call of the
\* underlying Token() fails, the caller gets the error and no token, the
\* wrapper still holds no token, and any call deciding while the wrapper
\* holds no token starts the underlying Token() again.
C6_EmptyStaysEmptyOnFailure ==
    [][\A c \in Callers :
          /\ (ts.kind = "inst" /\ pc[c] = "gen" /\ Returns(c)
              /\ cache = NilToken /\ ApiFailed(ret'.resp))
                 => (ret'.st = "err" /\ ret'.err # NoError /\ ret'.tok = NilToken
                     /\ cache' = NilToken /\ last' = NilToken)
          /\ (Reusing /\ Decides(c) /\ last = NilToken) => Regenerates(c)]_vars

\* After a failed first attempt the second attempt is running, and the
\* wrapper still holds nothing.
C6_Witness ==
    \E c \in Callers :
        /\ ts.kind = "inst"
        /\ cache = NilToken
        /\ ret.st = "err" /\ ret.fresh /\ ret.tok = NilToken
        /\ ret.resp.status = StatusInternalServerError
        /\ pc[c] = "gen" /\ gen[c].n = 2

\* C7: when the held token has expired and the API call of the refresh fails,
\* the caller gets the error and no token; a token a failed refresh found
\* expired is never returned afterwards; while no refresh has succeeded since,
\* every deciding call starts the underlying Token() again; and the first
\* success puts its own token in the wrapper.
C7_NoStaleAfterFailedRefresh ==
    [][\A c \in Callers :
          /\ (ts.kind = "inst" /\ pc[c] = "gen" /\ Returns(c)
              /\ cache # NilToken /\ ApiFailed(ret'.resp))
                 => (ret'.st = "err" /\ ret'.tok = NilToken
                     /\ (expired(cache, now)
                            => cache.AccessToken.n \in stale'))
          /\ (Returns(c) /\ ret'.st = "ok")
                 => ret'.tok.AccessToken.n \notin stale'
          /\ (Reusing /\ Decides(c) /\ last.AccessToken.n \in stale)
                 => Regenerates(c)
          /\ (Reusing /\ Returns(c) /\ ret'.st = "ok"
              /\ last.AccessToken.n \in stale)
                 => (ret'.fresh /\ cache' = ret'.tok
                     /\ last'.AccessToken.n \notin stale')]_vars

\* A refresh of an expired token failed, and a later refresh has succeeded.
C7_Witness ==
    /\ ts.kind = "inst"
    /\ stale = {1}
    /\ ret.st = "ok" /\ ret.fresh
    /\ cache = ret.tok /\ cache.AccessToken.n = 3

\* C8 as stated: once the latest successful underlying call returned a token
\* with zero expiry, no later Token() call starts the underlying Token().
C8_ZeroExpiryReusedForever ==
    [][\A c \in Callers :
          (Reusing /\ Decides(c) /\ last # NilToken /\ last.Expiry = 0)
              => ServedHeld(c, last)]_vars

\* C8 amended: the same for a zero-expiry token whose access token is not the
\* empty string.
C8_NonEmptyZeroExpiryReusedForever ==
    [][\A c \in Callers :
          (Reusing /\ Decides(c) /\ last # NilToken /\ last.Expiry = 0
           /\ last.AccessToken # EmptyString)
              => ServedHeld(c, last)]_vars

\* A zero-expiry token generated at the start is served at the end of time.
C8_Witness ==
    /\ ts.kind = "inst"
    /\ genCalls = 1
    /\ now = MaxTime
    /\ cache.Expiry = 0 /\ cache.AccessToken # EmptyString
    /\ ret.st = "ok" /\ ~ret.fresh /\ ret.tok = cache

\* C9 as stated, with margin = defaultExpiryDelta and E the expiry of the held
\* token: a call deciding at t with E - margin <= t < E starts the underlying
\* Token(), a call deciding at t < E - margin is served the held token.
C9_MarginInclusive ==
    [][\A c \in Callers :
          (Reusing /\ Decides(c) /\ last.Expiry # 0
           /\ last.AccessToken # EmptyString)
              => /\ (last.Expiry - defaultExpiryDelta <= now
                     /\ now < last.Expiry) => Regenerates(c)
                 /\ (now < last.Expiry - defaultExpiryDelta)
                        => ServedHeld(c, last)]_vars

\* C9 amended: a call deciding at t with E - margin < t < E starts the
\* underlying Token(); a call deciding at t <= E - margin is served the held
\* token.
C9_MarginExclusive ==
    [][\A c \in Callers :
          (Reusing /\ Decides(c) /\ last.Expiry # 0
           /\ last.AccessToken # EmptyString)
              => /\ (last.Expiry - defaultExpiryDelta < now
                     /\ now < last.Expiry) => Regenerates(c)
                 /\ (now <= last.Expiry - defaultExpiryDelta)
                        => ServedHeld(c, last)]_vars

\* A refresh is running that started inside the margin of the held token.
C9_Witness ==
    \E c \in Callers :
        /\ ts.kind = "inst"
        /\ pc[c] = "gen" /\ gen[c].at = now
        /\ cache = last /\ last.Expiry # 0
        /\ last.Expiry - defaultExpiryDelta < now /\ now < last.Expiry
        /\ ret.st = "ok" /\ ~ret.fresh /\ ret.tok = cache

\* C10 as stated: the value each of the three constructors returns consults
\* a held token first: a call deciding while the latest generated token is
\* valid starts no underlying Token() and returns that token.
C10_AllConstructorsWrap ==
    [][\A c \in Callers :
          (Decides(c) /\ Valid(last, now)) => ServedHeld(c, last)]_vars

\* C10 amended: NewApplicationTokenSource and NewInstallationTokenSource
\* return the source inside the reuse wrapper, whose Token() consults the held
\* token first; NewPersonalAccessTokenSource returns the bare source, whose
\* every Token() call runs the underlying generation and which holds nothing.
C10_TwoConstructorsWrap ==
    /\ [](/\ ts # NilSource => ts.kind \in {"app", "inst", "pat"}
          /\ ts.reuse <=> Reusing
          /\ ~Reusing => (cache = NilToken /\ mu = 0))
    /\ [][\A c \in Callers :
             /\ (Reusing /\ Decides(c) /\ Valid(cache, now))
                    => (genCalls' = genCalls /\ ret'.tok = cache)
             /\ (~Reusing /\ Decides(c)) => Regenerates(c)]_vars

\* The static source has run its generation twice for two calls, although
\* the first result was a valid token that never expires.
C10_Witness ==
    /\ ts.kind = "pat"
    /\ genCalls = 2
    /\ ret.st = "ok" /\ ret.fresh /\ ret.tok.Expiry = 0
    /\ last = ret.tok
    /\ \A c \in Callers : pc[c] = "idle"

TenMinutes == 10 * 60 * Second
ExpectedLifetime(opts) ==
    IF opts = <<>> THEN TenMinutes
    ELSE IF 0 < opts[1] /\ opts[1] <= TenMinutes THEN opts[1] ELSE TenMinutes

\* The source under test came from NewApplicationTokenSource.
FromApplicationCall == ctor.call.fn = "NewApplicationTokenSource"

\* C12: a source NewApplicationTokenSource returned has the lifetime d of its
\* WithApplicationTokenExpiration(d) option when 0 < d <= 10 minutes and ten
\* minutes when d <= 0, d > 10 minutes or no option was given; every JWT it
\* signs gets that lifetime counted from 60 s before the signing; and whether
\* the constructor fails does not depend on d.
C12_LifetimeClamped ==
    /\ [](FromApplicationCall =>
            /\ ctor.err = NoError
                  => ts.expiration = ExpectedLifetime(ctor.call.opts)
            /\ (ctor.err = NoError)
                  <=> (NewApplicationTokenSource(ctor.call.id,
                           ctor.call.privateKey, <<>>).err = NoError))
    /\ [][\A c \in Callers :
             (ts.kind = "app" /\ pc[c] = "gen" /\ Returns(c))
                 => ret'.tok.Expiry = now - 60 * Second
                                      + ExpectedLifetime(ctor.call.opts)]_vars

\* A source built with a 15-minute lifetime has signed a ten-minute JWT.
C12_Witness ==
    /\ FromApplicationCall /\ ctor.err = NoError
    /\ ctor.call.opts = <<15 * 60 * Second>>
    /\ ret.st = "ok" /\ ret.fresh
    /\ ret.tok.Expiry = now - 60 * Second + TenMinutes

\* The application source that signs: the source under test, or the JWT
\* source of the installation source under test; and the credential of the
\* latest signing, whose claims are in claims.
SigningSource == IF ts.kind = "inst" THEN ts.src ELSE ts
SignedToken == IF ts.kind = "inst" THEN jwt ELSE last
HasSigned == ts.kind \in {"app", "inst"} /\ claims # NoneSigned

\* C13 as stated: for every JWT signed, the exp claim minus the iat claim is
\* the effective lifetime, and the expiry of the credential is the exp claim.
C13_ClaimsExact ==
    HasSigned =>
        /\ claims.c.ExpiresAt - claims.c.IssuedAt = SigningSource.expiration
        /\ SignedToken.Expiry = claims.c.ExpiresAt

\* C13 amended: the iat and exp claims are whole seconds; exp is the expiry
\* of the credential with its fraction of a second cut off; exp minus iat is
\* the effective lifetime when that is a whole number of seconds, and less
\* than a second away from it otherwise.
C13_ClaimsTruncated ==
    HasSigned =>
        LET iat == claims.c.IssuedAt
            exp == claims.c.ExpiresAt
            L == SigningSource.expiration
        IN  /\ iat % Second = 0 /\ exp % Second = 0
            /\ exp <= SignedToken.Expiry /\ SignedToken.Expiry < exp + Second
            /\ SignedToken.Expiry = claims.at - 60 * Second + L
            /\ L % Second = 0 => exp - iat = L
            /\ L - Second < exp - iat /\ exp - iat < L + Second

\* A JWT has been signed between two whole seconds: its exp claim is earlier
\* than the expiry of the credential.
C13_Witness ==
    /\ ts.kind = "app" /\ HasSigned
    /\ claims.at % Second # 0
    /\ claims.c.ExpiresAt < SignedToken.Expiry
    /\ ret.st = "ok" /\ ret.fresh /\ ret.tok = SignedToken

\* The issuer the claims expect for an identifier: the decimal numeral of a
\* numeric application id, the client id string itself.
ExpectedIssuer(id) ==
    IF id.type = "int64"
    THEN CASE id.n = 12345 -> "12345" [] id.n = 0 -> "0"
    ELSE id.s

\* C14: every JWT the application source signs names as issuer the decimal
\* numeral of the numeric application id, or the unchanged client id string,
\* given to the constructor; the credential has type "Bearer" and a non-empty
\* token.  The JWT source of an installation source does the same.
C14_IssuerIsIdentity ==
    HasSigned =>
        /\ ts.kind = "app" => claims.c.Issuer = ExpectedIssuer(ctor.call.id)
        /\ ts.kind = "inst" => claims.c.Issuer = ExpectedIssuer(NumericAppID)
        /\ claims.c.Issuer # ""
        /\ SignedToken.TokenType = "Bearer"
        /\ SignedToken.AccessToken # EmptyString

\* A source built for application id 12345 has returned a signed JWT.
C14_Witness ==
    /\ ts.kind = "app" /\ HasSigned
    /\ ctor.call.id = Identifier("int64", 12345, "")
    /\ claims.c.Issuer = "12345"
    /\ ret.st = "ok" /\ ret.fresh /\ ret.tok = SignedToken
    /\ ret.tok.TokenType = "Bearer"

\* C15: the iat claim of every JWT signed at wall-clock time t is at most
\* t - 59 s: it is t - 60 s with the fraction of a second cut off, so it lies
\* in (t - 61 s, t - 60 s].
C15_ClockDriftBuffer ==
    HasSigned =>
        /\ claims.c.IssuedAt <= claims.at - 59 * Second
        /\ claims.c.IssuedAt <= claims.at - 60 * Second
        /\ claims.c.IssuedAt > claims.at - 61 * Second
        /\ claims.at <= now

\* A JWT signed just now, between two whole seconds, carries an iat more than
\* 60 s back.
C15_Witness ==
    /\ HasSigned
    /\ claims.at = now /\ now > StartTime
    /\ claims.c.IssuedAt < now - 60 * Second
    /\ ret.st = "ok" /\ ret.fresh /\ ret.tok = SignedToken

\* The identifier of a constructor call is the zero value of its kind.
ZeroIdentifier(id) == id.n = 0 /\ id.s = ""

\* C16: NewApplicationTokenSource returns an error and the nil source exactly
\* when the identifier is zero (0 or "") or the key bytes are not a PEM RSA
\* private key; in every other case it returns no error and a source.
C16_ErrorIffZeroOrBadKey ==
    FromApplicationCall =>
        /\ (ctor.err # NoError)
              <=> (ZeroIdentifier(ctor.call.id) \/ ctor.call.privateKey # "rsa.pem")
        /\ (ctor.err # NoError) <=> (ts = NilSource)
        /\ (ctor.err = NoError) => ts.kind = "app"

\* The source under test came from NewPersonalAccessTokenSource.
FromPersonalCall == ctor.call.fn = "NewPersonalAccessTokenSource"

\* C17: every Token() call on the static source returns an error and the nil
\* credential when the token given to the constructor is the empty string,
\* and otherwise (a token of white space included) returns that very string
\* with type "Bearer" and the zero expiry.
C17_StaticToken ==
    [][\A c \in Callers :
          (FromPersonalCall /\ pc[c] # "idle" /\ Returns(c))
              => IF ctor.call.token = EmptyString
                 THEN ret'.st = "err" /\ ret'.err # NoError
                      /\ ret'.tok = NilToken
                 ELSE ret'.st = "ok" /\ ret'.err = NoError
                      /\ ret'.tok.AccessToken = ctor.call.token
                      /\ ret'.tok.TokenType = "Bearer"
                      /\ ret'.tok.Expiry = 0]_vars

\* The second Token() call on a source holding a single blank has returned
\* the blank as the token.
C17_Witness ==
    /\ FromPersonalCall
    /\ ctor.call.token = Str(" ", 0)
    /\ genCalls = 2
    /\ ret.st = "ok" /\ ret.tok.AccessToken = Str(" ", 0) /\ ret.tok.Expiry = 0
    /\ \A c \in Callers : pc[c] = "idle"

\* C18 as stated: NewPersonalAccessTokenSource called with the empty string
\* yields no usable source.
C18_EmptyTokenRejectedAtConstruction ==
    (FromPersonalCall /\ ctor.call.token = EmptyString) => ts = NilSource

\* C18 amended: NewPersonalAccessTokenSource has no error result and returns
\* a source holding the given string, the empty string included; the empty
\* token shows only when Token() is called, each call returning the error
\* "token not provided" and no credential.
C18_EmptyTokenSurfacesAtToken ==
    /\ [](FromPersonalCall =>
            /\ ctor.err = NoError
            /\ ts # NilSource /\ ts.kind = "pat" /\ ts.token = ctor.call.token)
    /\ [][\A c \in Callers :
             (FromPersonalCall /\ ctor.call.token = EmptyString
              /\ pc[c] # "idle" /\ Returns(c))
                 => /\ ret'.st = "err" /\ ret'.tok = NilToken
                    /\ ret'.err = errors_New("token not provided")]_vars

\* A source built with the empty string has answered a Token() call with
\* the error.
C18_Witness ==
    /\ FromPersonalCall /\ ctor.call.token = EmptyString
    /\ ts # NilSource
    /\ genCalls >= 1
    /\ ret.st = "err" /\ ret.err.msg = "token not provided"

\* The client has sent a request and got a response.
Answered == api.url # "" /\ ~api.resp.failed

\* C19: createInstallationToken returns without error only for a response
\* with status 200 or 201; for a response with any other status it returns
\* no token and the status error, which carries the status code and the text
\* of the response body.
C19_StatusChecked ==
    Answered =>
        /\ api.result.err = NoError => api.resp.status \in {200, 201}
        /\ api.resp.status \notin {200, 201}
              => /\ api.result.token = EmptyString /\ api.result.expiresAt = 0
                 /\ api.result.err.msg = "GitHub API returned status"
                 /\ api.result.err.status = api.resp.status
                 /\ api.result.err.body = api.resp.body

\* A 202 response with a complete token body has been turned into the status
\* error.
C19_Witness ==
    /\ Answered
    /\ api.resp.status = 202 /\ api.resp.body = "full"
    /\ api.result.err = Error("GitHub API returned status", 202, "full")
    /\ api.result.token = EmptyString

\* The alternate host given without a path, with and without a trailing
\* slash.
BareHostURLs ==
    {<<"https", ":", "//", "ghes.example.com">>,
     <<"https", ":", "//", "ghes.example.com", "/">>}

\* A step on which the configured client sends a request.
RequestStep ==
    /\ api'.configured = api.configured /\ api'.client = api.client
    /\ api' # api

\* C20: after the base URL https://ghes.example.com is configured, with or
\* without a trailing slash, the stored base URL is
\* https://ghes.example.com/api/v3/ and the request for an installation id
\* goes to https://ghes.example.com/api/v3/app/installations/{id}/access_tokens.
C20_BareHostGetsApiV3 ==
    [][RequestStep /\ api.configured \in BareHostURLs
         => /\ url_String(api.client.baseURL)
                 = "https://ghes.example.com/api/v3/"
            /\ api'.url = "https://ghes.example.com/api/v3/app/installations/"
                              \o FormatInt(api'.id) \o "/access_tokens"]_vars

\* The alternate host given with the API path, with and without a trailing
\* slash.
PathURLs ==
    {<<"https", ":", "//", "example.com", "/", "api", "/", "v3">>,
     <<"https", ":", "//", "example.com", "/", "api", "/", "v3", "/">>}

\* C21: after https://example.com/api/v3 or https://example.com/api/v3/ is
\* configured the stored base URL is exactly https://example.com/api/v3/ and
\* the request goes to
\* https://example.com/api/v3/app/installations/{id}/access_tokens, no path
\* segment of the base lost.
C21_PathKeptOnce ==
    [][RequestStep /\ api.configured \in PathURLs
         => /\ url_String(api.client.baseURL) = "https://example.com/api/v3/"
            /\ api'.url = "https://example.com/api/v3/app/installations/"
                              \o FormatInt(api'.id) \o "/access_tokens"]_vars

\* The hosts of RawURLs that begin with "api." or contain ".api.".
ApiHosts == {"api.github.example.com", "ghes.api.example.com"}

\* C22: for a host that begins with "api." or contains ".api." the stored
\* base URL is scheme://host/, with a trailing slash and no api/v3 subpath,
\* whether or not the given URL had a trailing slash.
C22_ApiHostGetsSlashOnly ==
    (api.err = NoError /\ Len(api.configured) >= 4
        /\ api.configured[4] \in ApiHosts)
      => url_String(api.client.baseURL)
            = api.configured[1] \o "://" \o api.configured[4] \o "/"

\* A URL text with a control character or a blank in it.
Malformed(raw) == \E i \in 1..Len(raw) : raw[i] \in {"\n", " "}

\* C23: withEnterpriseURL called with a string that fails URL parsing
\* returns an error and leaves the base URL of the client at its previous
\* value.
C23_ParseErrorLeavesBaseURL ==
    [][api'.configured # api.configured /\ Malformed(api'.configured)
         => /\ api'.err # NoError
            /\ api'.client.baseURL = api.client.baseURL
            /\ api.client.baseURL # NoURL]_vars

\* A malformed URL has been refused by a client that had been given an
\* enterprise base URL before, and the client still has that one.
C23_Witness ==
    /\ Malformed(api.configured)
    /\ api.err # NoError
    /\ url_String(api.client.baseURL) = "https://ghes.example.com"

\* The source named k was given a malformed enterprise base URL.
GivenMalformed(k) ==
    \E j \in 1..Len(net.given[k]) :
        /\ net.given[k][j].opt = "WithEnterpriseURLs"
        /\ Malformed(net.given[k][j].baseURL)

\* The URL of the token request for installation id on the default host.
DefaultRequestURL(id) ==
    "https://api.github.com/app/installations/" \o FormatInt(id)
        \o "/access_tokens"

\* C24: a malformed alternate base URL configured through the option of the
\* installation source results in an error reaching the caller, at
\* construction or from the next Token(), and never in a request going to
\* the default host without one.
C24_MalformedURLReported ==
    (net.req.by # "" /\ GivenMalformed(net.req.by))
      => \/ net.req.out.err # NoError
         \/ net.req.url # DefaultRequestURL(InstallationIDOf(net.req.by))

\* The token options the source named k was given last, "nil" if none.
RECURSIVE LastTokenOptions(_)
LastTokenOptions(opts) ==
    IF opts = <<>> THEN "nil"
    ELSE IF opts[Len(opts)].opt = "WithInstallationTokenOptions"
    THEN opts[Len(opts)].opts
    ELSE LastTokenOptions(SubSeq(opts, 1, Len(opts) - 1))

\* C25: Token() of the installation source asks for a token of the
\* installation id and with the options fixed at construction; on API success
\* it returns a credential whose token and expiry are exactly the token and
\* expires_at of the response, of type "Bearer"; on any error of the API
\* client it returns no credential and that error unchanged.
C25_TokenFromResponse ==
    net.req.by # "" =>
        LET k == net.req.by
            token == createInstallationToken(net.req.resp, 1)
        IN  /\ net.req.url
                  = url_String(net.src[k].client.baseURL) \o "app/installations/"
                      \o FormatInt(InstallationIDOf(k)) \o "/access_tokens"
            /\ net.req.body = LastTokenOptions(net.given[k])
            /\ token.err = NoError
                  => /\ net.req.out.err = NoError
                     /\ net.req.out.tok.AccessToken = token.token
                     /\ net.req.out.tok.TokenType = "Bearer"
                     /\ net.req.out.tok.Expiry = token.expiresAt
                     /\ net.req.resp.body = "full"
                           => net.req.out.tok.Expiry = net.req.resp.expiresAt
            /\ token.err # NoError
                  => /\ net.req.out.tok = NilToken
                     /\ net.req.out.err = token.err

\* A source built with token options has received a complete 201 response
\* and returned its token and expiry.
C25_Witness ==
    /\ net.req.by # ""
    /\ net.req.body = "repositories"
    /\ net.req.resp.status = StatusCreated /\ net.req.resp.body = "full"
    /\ net.req.out.err = NoError
    /\ net.req.out.tok.Expiry = net.req.resp.expiresAt
    /\ net.req.out.tok.Expiry # 0

\* C26: a 200 or 201 response whose body is not parseable JSON makes
\* createInstallationToken return no token and the decode error, not a
\* partially filled token.
C26_DecodeError ==
    (Answered /\ api.resp.status \in {200, 201} /\ api.resp.body = "garbage")
      => /\ api.result.token = EmptyString
         /\ api.result.expiresAt = 0
         /\ api.result.err = Error("failed to decode response", 0, "")

\* A 200 response with a body that is not JSON has been refused.
C26_Witness ==
    /\ Answered
    /\ api.resp.status = StatusOK /\ api.resp.body = "garbage"
    /\ api.result.err.msg = "failed to decode response"

\* C27: refresh is lazy only.  Every underlying Token() (signing a JWT, the
\* installation-token request) starts on a step of a caller that is inside
\* its Token() call and runs only while that caller is; with no Token() call
\* in progress nothing is generated or stored, whatever time elapses.
C27_LazyRefreshOnly ==
    [][/\ (genCalls' # genCalls \/ jwtCalls' # jwtCalls)
            => \E c \in Callers : pc[c] = "called" /\ pc'[c] = "gen"
       /\ (cache' # cache \/ jwt' # jwt \/ claims' # claims)
            => \E c \in Callers : pc[c] # "idle"
       /\ \A c \in Callers : gen'[c] # NoGen => pc'[c] = "gen"]_vars

\* The held token has run out while no caller was inside Token(), and no
\* underlying Token() has been called since the one that produced it.
C27_Witness ==
    /\ \A c \in Callers : pc[c] = "idle"
    /\ cache # NilToken /\ expired(cache, now)
    /\ cache.AccessToken.n = genCalls
    /\ now > StartTime

\* Position of the last WithHTTPClient of an option list, 0 if it has none.
LastHTTPClient(opts) ==
    IF \E j \in 1..Len(opts) : opts[j].opt = "WithHTTPClient"
    THEN CHOOSE j \in 1..Len(opts) :
            /\ opts[j].opt = "WithHTTPClient"
            /\ \A h \in (j + 1)..Len(opts) : opts[h].opt # "WithHTTPClient"
    ELSE 0

\* A valid enterprise-URL option comes after the last WithHTTPClient.
EnterpriseInForce(opts) ==
    \E j \in (LastHTTPClient(opts) + 1)..Len(opts) :
        /\ opts[j].opt = "WithEnterpriseURLs"
        /\ ~Malformed(opts[j].baseURL) /\ ~Malformed(opts[j].uploadURL)

\* C28: the requests of an installation source go to the enterprise base URL
\* if and only if a valid enterprise-URL option was applied after the last
\* WithHTTPClient option; otherwise, an enterprise-URL option before
\* WithHTTPClient included, they go to the default base URL.
C28_OptionOrder ==
    net.req.by # "" =>
        LET k == net.req.by
        IN  /\ EnterpriseInForce(net.given[k])
                  <=> net.req.url
                        = "https://ghes.example.com/api/v3/app/installations/"
                            \o FormatInt(InstallationIDOf(k)) \o "/access_tokens"
            /\ ~EnterpriseInForce(net.given[k])
                  <=> net.req.url = DefaultRequestURL(InstallationIDOf(k))

\* A source given the enterprise URLs and then an HTTP client has sent its
\* request to the default host.
C28_Witness ==
    /\ net.req.by = "a"
    /\ net.given["a"] = <<WithEnterpriseURLs(EnterpriseURL, UploadURL),
                          WithHTTPClient>>
    /\ net.req.url = DefaultRequestURL(1)

\* Every source of the program has been built with WithHTTPClient, all on
\* the caller's one *http.Client.
SharedClient ==
    \A k \in SourceNames :
        net.src[k] # NilSource /\ LastHTTPClient(net.given[k]) # 0

\* C29: when the installation sources are built with the same caller-supplied
\* HTTP client and different upstream JWT sources, every request of each
\* source reaches the server authenticated with a JWT of its own upstream
\* source.
C29_OwnAssertionOnSharedClient ==
    (SharedClient /\ net.req.by # "")
      => net.req.auth = Upstream(net.req.by).issuer

\* C30: across the two cache layers the mutexes are taken in the order
\* installation wrapper, then JWT wrapper: a caller holding the JWT wrapper's
\* mutex never waits for the installation wrapper's, and a caller that has
\* returned, with a token or with an error, holds neither; so every Token()
\* call returns, given that every signing step and HTTP call returns.
C30_EveryTokenCallReturns ==
    /\ [](\A c \in Callers :
            /\ amu = c => pc[c] \in {"inst.sign", "app.sign"}
            /\ mu = c => pc[c] \in {"inst.request", "inst.sign", "inst.http"}
            /\ pc[c] = "idle" => mu # c /\ amu # c)
    /\ \A c \in Callers : (pc[c] # "idle") ~> (pc[c] = "idle")

\* One caller holds the installation wrapper's mutex and waits at the
\* transport for the JWT wrapper's, which a direct caller holds while
\* signing; a failed request has returned before.
C30_Witness ==
    \E c, d \in Callers :
        /\ mu = c /\ pc[c] = "inst.request"
        /\ amu = d /\ pc[d] = "app.sign"
        /\ ret.st = "err"

\* The source under test is an application source with a lifetime of at most
\* 60 seconds.
ShortLivedApplication ==
    ts.kind = "app" /\ ts.expiration <= 60 * Second

\* C31: a JWT generated at time t with effective lifetime L has the expiry
\* t - 60 s + L; for every lifetime L <= 60 s that expiry is not after the
\* moment of generation, and the reuse wrapper around the application source
\* never returns the held JWT: every Token() call signs a new one.
C31_ShortLifetimeNeverCached ==
    /\ []((ts.kind = "app" /\ claims # NoneSigned)
            => last.Expiry = claims.at - 60 * Second + ts.expiration)
    /\ []((ShortLivedApplication /\ claims # NoneSigned)
            => /\ last.Expiry <= claims.at
               /\ ~Valid(cache, now)
               /\ ret.st # "none" => ret.fresh)
    /\ [][ShortLivedApplication
            => \A c \in Callers :
                  (pc[c] = "called" /\ pc'[c] # "called") => pc'[c] = "gen"]_vars

\* A source with a lifetime of exactly 60 s has signed twice at one and the
\* same wall-clock time, the JWT held expiring at the moment it was signed.
C31_Witness ==
    /\ ts.kind = "app" /\ ts.reuse /\ ts.expiration = 60 * Second
    /\ genCalls = 2 /\ now = StartTime
    /\ ret.fresh /\ ret.tok.Expiry = now
    /\ cache = ret.tok

\* C32: a 200 or 201 response whose JSON body has neither token nor
\* expires_at is accepted without error: createInstallationToken returns a
\* token with the empty string and the zero time, and the installation source
\* makes of it a credential with an empty token and the zero expiry, which
\* never expires, instead of failing.
C32_EmptyBodyAccepted ==
    (net.req.by # "" /\ ~net.req.resp.failed
        /\ net.req.resp.status \in {200, 201} /\ net.req.resp.body = "empty")
      => /\ createInstallationToken(net.req.resp, 1)
               = [token |-> EmptyString, expiresAt |-> 0, err |-> NoError]
         /\ net.req.out.err = NoError
         /\ net.req.out.tok = Token(EmptyString, "Bearer", 0)
         /\ ~expired(net.req.out.tok, MaxTime)

\* A source has answered a 200 response with the body {} by a credential
\* with an empty token.
C32_Witness ==
    /\ net.req.by # ""
    /\ net.req.resp.status = StatusOK /\ net.req.resp.body = "empty"
    /\ net.req.out.err = NoError
    /\ net.req.out.tok.AccessToken = EmptyString
    /\ net.req.out.tok.TokenType = bearerTokenType
====
